---- MODULE Spec2Model ----
(***************************************************************************)
(* The Briefing: an Express server (server.js) that                        *)
(*   - keeps the most recent article batch in the module-level variable    *)
(*     cachedArticles (POST /api/update-cache, GET /api/articles),         *)
(*   - renders the first 20 cached articles as an RSS document (GET /rss), *)
(*   - proxies POST /api/generate-news to the Gemini API, trying a fixed   *)
(*     list of models one after the other.                                 *)
(* The model follows the newest revision of server.js (the one with the    *)
(* cache and the feed); the two older revisions have the same generate     *)
(* handler (one of them without the fallback loop).                        *)
(*                                                                         *)
(* Every action is one turn of the Node event loop: a synchronous handler, *)
(* or the part of the async generate handler between two awaits.           *)
(***************************************************************************)
EXTENDS Integers, Sequences, FiniteSets, TLC

(***************************************************************************)
(* Bounds of the model.                                                    *)
(***************************************************************************)
\* number of generate requests that can be open at the same time
MaxReqs == 1
\* Date.now() ranges over 0..MaxClock
MaxClock == 1
\* longest batch posted to the cache in the feed specification
MaxBatchLen == 22
\* the generate requests that run side by side in SpecConcurrent
MaxConcurrent == 2
\* the longest raw text, in tokens, SpecExtract hands to the extractor
MaxTextLen == 6

(***************************************************************************)
(* Program constants.                                                      *)
(***************************************************************************)
\* cachedArticles.slice(0, 20)
FeedLimit == 20

\* const categories = [...]
categories == <<"politics", "technology", "lifestyle", "business", "cricket">>

\* const models = [...]
models == <<"gemini-2.5-flash", "gemini-2.0-flash", "gemini-flash-latest",
            "gemini-pro-latest", "gemini-2.5-pro", "gemini-pro">>

(***************************************************************************)
(* JSON values.  A value is a record [kind, items, n]: items holds the     *)
(* elements of an array, n the length of a string or the value of a        *)
(* number.  "undefined" is the value of a property the body lacks.         *)
(***************************************************************************)
JV(kind, items, n) == [kind |-> kind, items |-> items, n |-> n]
Undefined == JV("undefined", <<>>, 0)
Null == JV("null", <<>>, 0)
Arr(s) == JV("array", s, 0)
Str(n) == JV("string", <<>>, n)
Num(n) == JV("number", <<>>, n)
Obj == JV("object", <<>>, 0)

\* JavaScript truthiness (the left operand of ||, the operand of !)
Truthy(v) ==
    CASE v.kind \in {"array", "object"} -> TRUE
      [] v.kind = "string" -> v.n > 0
      [] v.kind = "number" -> v.n # 0
      [] OTHER -> FALSE

\* v.length: defined for arrays and strings, undefined for the rest
LengthOf(v) ==
    CASE v.kind = "array" -> Num(Len(v.items))
      [] v.kind = "string" -> Num(v.n)
      [] OTHER -> Undefined

(***************************************************************************)
(* Articles.  hasId = FALSE is a record with no id property.               *)
(***************************************************************************)
Art(hasId, id, headline) ==
    [hasId |-> hasId, id |-> id, headline |-> headline, summary |-> "s",
     author |-> "au", category |-> "politics", date |-> "Oct 19, 2025"]

Ids(s) == [i \in 1..Len(s) |-> s[i].id]
Distinct(s) == \A i, j \in 1..Len(s) : i # j => s[i] # s[j]
Min(a, b) == IF a <= b THEN a ELSE b

(***************************************************************************)
(* State.                                                                  *)
(***************************************************************************)
VARIABLES
    apiKey,          \* GEMINI_API_KEY is set (process.env, fixed at start)
    cachedArticles,  \* let cachedArticles = []
    lastArticles,    \* history: req.body.articles of the latest update-cache
    resp,            \* the response of the latest /rss, /api/articles or
                     \* /api/update-cache request
    pc,              \* per generate request: "idle", "fetch" (awaiting
                     \* fetch), "json" (awaiting response.json()), "done"
    category,        \* per generate request: req.body.category
    selectedCategory,\* per generate request: the category of the prompt
    model,           \* per generate request: index of the loop's model
    ok,              \* per generate request: response.ok of the open call
    calls,           \* history: the models fetched for the request, in order
    failures,        \* history: the models logged as failed or in error
    outcomes,        \* history: per finished call, whether it was a success
                     \* (response.ok and an extractable text)
    parsed,          \* history: the array JSON.parse returned for the
                     \* response that was sent
    genResp,         \* per generate request: the response sent
    rawText,         \* SpecExtract: generatedText, the text to extract from
    extracted        \* SpecExtract: <<>>, or the one result of the extraction

cacheVars == <<cachedArticles, lastArticles, resp>>
genVars == <<pc, category, selectedCategory, model, ok, calls, failures,
             outcomes, parsed, genResp>>
vars == <<apiKey, cachedArticles, lastArticles, resp, pc, category,
          selectedCategory, model, ok, calls, failures, outcomes, parsed,
          genResp, rawText, extracted>>

(***************************************************************************)
(* The feed document is a sequence of tokens: the pieces of the template   *)
(* literal ("tpl") and the interpolated values ("txt").                    *)
(***************************************************************************)
T(v) == [t |-> "tpl", v |-> v]
X(v) == [t |-> "txt", v |-> v]

\* ${article.id} in the template literal
IdText(a) == IF a.hasId THEN ToString(a.id) ELSE "undefined"

\* new Date(article.date).toUTCString(), for a server whose time zone is
\* UTC; a date that does not parse gives "Invalid Date"
ToUTCString(date) ==
    IF date = "Oct 19, 2025" THEN "Sun, 19 Oct 2025 00:00:00 GMT"
    ELSE "Invalid Date"

\* the template literal of one <item>
ItemTokens(article, baseUrl) ==
    << T("<item>"),
       T("<title><![CDATA["), X(article.headline), T("]]></title>"),
       T("<description><![CDATA["), X(article.summary),
       T("]]></description>"),
       T("<author>"), X(article.author), T("</author>"),
       T("<category>"), X(article.category), T("</category>"),
       T("<pubDate>"), X(ToUTCString(article.date)), T("</pubDate>"),
       T("<guid isPermaLink=\"false\">"), X(baseUrl), T("/#article-"),
       X(IdText(article)), T("</guid>"),
       T("</item>") >>

\* Array.prototype.slice(start, end), 0 <= start <= end
SliceLong(s, start, end) == SubSeq(s, start + 1, Min(end + 1, Len(s)))
Slice(s, start, end) == SubSeq(s, start + 1, Min(end, Len(s)))

\* Array.prototype.join('\n') of token sequences
RECURSIVE Join(_)
Join(ss) ==
    IF Len(ss) = 0 THEN <<>>
    ELSE IF Len(ss) = 1 THEN ss[1]
    ELSE ss[1] \o <<T("\n")>> \o Join(Tail(ss))

\* cachedArticles.slice(0, 20).map(article => <item template>)
RssItems(articles, baseUrl) ==
    LET page == Slice(articles, 0, FeedLimit)
    IN [i \in 1..Len(page) |-> ItemTokens(page[i], baseUrl)]

\* the template literal of the document
RssFeed(articles, baseUrl) ==
    << T("<?xml version=\"1.0\" encoding=\"UTF-8\"?>"),
       T("<rss version=\"2.0\" xmlns:atom=\"http://www.w3.org/2005/Atom\">"),
       T("<channel>"),
       T("<title>The Briefing - India's Finest Satirical News</title>"),
       T("<link>"), X(baseUrl), T("</link>"),
       T("<description>...</description>"),
       T("<language>en-in</language>"),
       T("<lastBuildDate>"), X("now"), T("</lastBuildDate>"),
       T("<atom:link href=\""), X(baseUrl), T("/rss"),
       T("\" rel=\"self\" type=\"application/rss+xml\"/>") >>
    \o Join(RssItems(articles, baseUrl))
    \o << T("</channel>"), T("</rss>") >>

(***************************************************************************)
(* Responses of the synchronous handlers.                                  *)
(***************************************************************************)
Response(op, status, json, doc, success, count) ==
    [op |-> op, status |-> status, json |-> json, doc |-> doc,
     success |-> success, count |-> count]
NoResponse == Response("none", 0, Undefined, <<>>, FALSE, Undefined)

\* app.get('/rss'): a cache that is no array has no slice() or its slice
\* has no map(); the TypeError reaches Express's error handler (500)
Rss(baseUrl) ==
    /\ resp' = IF cachedArticles.kind = "array"
               THEN Response("rss", 200, Undefined,
                             RssFeed(cachedArticles.items, baseUrl),
                             FALSE, Undefined)
               ELSE Response("rss", 500, Undefined, <<>>, FALSE, Undefined)
    /\ UNCHANGED <<apiKey, rawText, extracted, cachedArticles, lastArticles>>
    /\ UNCHANGED genVars

\* app.get('/api/articles')
GetArticles ==
    /\ resp' = Response("articles", 200, cachedArticles, <<>>, FALSE,
                        Undefined)
    /\ UNCHANGED <<apiKey, rawText, extracted, cachedArticles, lastArticles>>
    /\ UNCHANGED genVars

\* cachedArticles = articles || []
CacheAfterUpdateMerge(old, articles) ==
    IF Truthy(articles)
    THEN IF old.kind = "array" /\ articles.kind = "array"
         THEN Arr(old.items \o articles.items) ELSE articles
    ELSE old
CacheAfterUpdateNoDefault(old, articles) == articles
CacheAfterUpdate(old, articles) ==
    IF Truthy(articles) THEN articles ELSE Arr(<<>>)

\* app.post('/api/update-cache')
UpdateCache(articles) ==
    /\ cachedArticles' = CacheAfterUpdate(cachedArticles, articles)
    /\ lastArticles' = articles
    /\ resp' = Response("update-cache", 200, Undefined, <<>>, TRUE,
                        LengthOf(cachedArticles'))
    /\ UNCHANGED <<apiKey, rawText, extracted>>
    /\ UNCHANGED genVars

(***************************************************************************)
(* The text a model returns is a sequence of tokens: the fence, the       *)
(* tag "json", a line break, a blank, prose, and JSON fragments:           *)
(*   "[]"     the empty array                                              *)
(*   "[a,b]"  two records without id                                       *)
(*   "[1,b]"  a record with id 1 and a record without id                   *)
(*   "[7,7]"  two records that both carry id 7                             *)
(*   "{}"     an object (valid JSON, no array)                             *)
(*   "[{"     a fragment that is no JSON                                   *)
(***************************************************************************)
\* the triple-backtick delimiter of a fenced block
Fence == "FENCE"
NL == "\n"

JsonFragments == {"[]", "[a,b]", "[1,b]", "[7,7]", "{}"}

FragmentValue(tok) ==
    CASE tok = "[]" -> Arr(<<>>)
      [] tok = "[a,b]" -> Arr(<<Art(FALSE, 0, "a"), Art(FALSE, 0, "b")>>)
      [] tok = "[1,b]" -> Arr(<<Art(TRUE, 1, "a"), Art(FALSE, 0, "b")>>)
      [] tok = "[7,7]" -> Arr(<<Art(TRUE, 7, "a"), Art(TRUE, 7, "b")>>)
      [] OTHER -> Obj

IsSpace(tok) == tok \in {NL, " "}

RECURSIVE TrimLeft(_)
TrimLeft(text) ==
    IF Len(text) > 0 /\ IsSpace(text[1]) THEN TrimLeft(Tail(text)) ELSE text

RECURSIVE TrimRight(_)
TrimRight(text) ==
    IF Len(text) > 0 /\ IsSpace(text[Len(text)])
    THEN TrimRight(SubSeq(text, 1, Len(text) - 1)) ELSE text

Parsed(isOk, value) == [ok |-> isOk, value |-> value]

\* JSON.parse(jsonText): white space around the one value is allowed;
\* anything else is a SyntaxError (ok = FALSE)
JSONParse(text) ==
    LET t == TrimRight(TrimLeft(text))
    IN IF Len(t) = 1 /\ t[1] \in JsonFragments
       THEN Parsed(TRUE, FragmentValue(t[1]))
       ELSE Parsed(FALSE, Undefined)

IsAt(text, i, pat) ==
    /\ i + Len(pat) - 1 <= Len(text)
    /\ SubSeq(text, i, i + Len(pat) - 1) = pat

\* the first place at or after i where pat occurs in text, 0 if none
RECURSIVE IndexOf(_, _, _)
IndexOf(text, pat, i) ==
    IF i + Len(pat) - 1 > Len(text) THEN 0
    ELSE IF IsAt(text, i, pat) THEN i
    ELSE IndexOf(text, pat, i + 1)

\* generatedText.match(/<open>([\s\S]*?)\n<fence>/): the match starts at the
\* leftmost opening that has a line break and a fence after it (an opening
\* further right has no more closings than the leftmost one) and, the
\* group being lazy, ends at the nearest of them; the result is the
\* captured group, or found = FALSE (null)
Match(text, open) ==
    LET i == IndexOf(text, open, 1)
        j == IF i = 0 THEN 0
             ELSE IndexOf(text, <<NL, Fence>>, i + Len(open))
    IN IF j = 0 THEN [found |-> FALSE, group |-> <<>>]
       ELSE [found |-> TRUE, group |-> SubSeq(text, i + Len(open), j - 1)]

\* lines 146-153: jsonMatch, jsonText, JSON.parse(jsonText)
Extract(generatedText) ==
    LET m1 == Match(generatedText, <<Fence, "json", NL>>)
        m2 == Match(generatedText, <<Fence, NL>>)
        jsonText == IF m1.found THEN m1.group
                    ELSE IF m2.found THEN m2.group
                    ELSE generatedText
    IN JSONParse(jsonText)

\* the body of an upstream response as response.json() resolves it:
\* hasText = FALSE is a body without candidates[0].content.parts[0].text
Data(hasText, text) == [hasText |-> hasText, text |-> text]

\* Date.now() read once per record: a non-decreasing sequence of readings
Times(n) == {t \in [1..n -> 0..MaxClock] :
               \A i, j \in 1..n : i <= j => t[i] <= t[j]}

\* articles.map((article, index) => ({id: Date.now() + index, ...article}))
\* the spread comes last: an id the record carries replaces the new one
ArticlesWithIdsDropLast(articles, times) ==
    [i \in 1..(Len(articles) - 1) |->
        IF articles[i].hasId THEN articles[i]
        ELSE [articles[i] EXCEPT !.hasId = TRUE, !.id = times[i] + (i - 1)]]
ArticlesWithIds(articles, times) ==
    [i \in 1..Len(articles) |->
        IF articles[i].hasId THEN articles[i]
        ELSE [articles[i] EXCEPT !.hasId = TRUE, !.id = times[i] + (i - 1)]]

(***************************************************************************)
(* POST /api/generate-news.                                                *)
(***************************************************************************)
\* the number of values Math.random() takes: k stands for k / RandSteps
RandSteps == 5

\* body.category when the body has no category
NoCategory == "<undefined>"

GenResponse(status, body) == [status |-> status, body |-> body]
NoGenResponse == GenResponse(0, <<>>)

\* categories[i] with a 0-based index; undefined past the end
CategoryAt(i) ==
    IF i + 1 \in 1..Len(categories) THEN categories[i + 1] ELSE NoCategory

\* category === 'random'
\*     ? categories[Math.floor(Math.random() * categories.length)]
\*     : category
SelectedCategoryLengthIndex(cat, rnd) ==
    IF cat = "random"
    THEN CategoryAt(((rnd * Len(categories)) \div RandSteps) + 1)
    ELSE cat
SelectedCategory(cat, rnd) ==
    IF cat = "random"
    THEN CategoryAt((rnd * Len(categories)) \div RandSteps)
    ELSE cat

\* if (!GEMINI_API_KEY)
KeyMissingNever(key) == FALSE
KeyMissing(key) == ~key

\* for (const model of models): the model after the i-th
NextModelSame(i) == i
NextModelSkip(i) == i + 2
NextModel(i) == i + 1

\* lines 81-88, 109: models is a constant of the one request and its loop
\* starts at the first element, whatever models have failed (failed: the
\* failures logged so far, per request)
FirstModelShared(failed) ==
    IF \E q \in DOMAIN failed : Len(failed[q]) \in 1..(Len(models) - 1)
    THEN 2 ELSE 1
FirstModel(failed) == 1

\* line 113: the iteration for model i awaits one fetch, of model i
FetchesAhead(i) == <<i, i + 1>>
Fetches(i) == <<i>>

\* return res.json(...) / return res.status(...).json(...): the response
\* is sent and the handler ends; its locals are gone
FinishGoesOn(r, response, source) ==
    /\ genResp' = [genResp EXCEPT ![r] = response]
    /\ parsed' = [parsed EXCEPT ![r] = source]
    /\ UNCHANGED <<pc, category, selectedCategory, model, ok>>
Finish(r, response, source) ==
    /\ pc' = [pc EXCEPT ![r] = "done"]
    /\ genResp' = [genResp EXCEPT ![r] = response]
    /\ parsed' = [parsed EXCEPT ![r] = source]
    /\ category' = [category EXCEPT ![r] = NoCategory]
    /\ selectedCategory' = [selectedCategory EXCEPT ![r] = NoCategory]
    /\ model' = [model EXCEPT ![r] = 0]
    /\ ok' = [ok EXCEPT ![r] = FALSE]

\* lines 66-113: the handler up to the first await; a finished request's
\* slot takes the next request
GenerateNews(r, cat, rnd) ==
    /\ pc[r] \in {"idle", "done"}
    /\ IF KeyMissing(apiKey)
       THEN /\ Finish(r, GenResponse(503, <<>>), <<>>)
            /\ calls' = [calls EXCEPT ![r] = <<>>]
            /\ failures' = [failures EXCEPT ![r] = <<>>]
            /\ outcomes' = [outcomes EXCEPT ![r] = <<>>]
       ELSE /\ pc' = [pc EXCEPT ![r] = "fetch"]
            /\ category' = [category EXCEPT ![r] = cat]
            /\ selectedCategory' =
                   [selectedCategory EXCEPT ![r] = SelectedCategory(cat, rnd)]
            /\ model' = [model EXCEPT ![r] = FirstModel(failures)]
            /\ ok' = [ok EXCEPT ![r] = FALSE]
            /\ calls' = [calls EXCEPT ![r] = Fetches(FirstModel(failures))]
            /\ failures' = [failures EXCEPT ![r] = <<>>]
            /\ outcomes' = [outcomes EXCEPT ![r] = <<>>]
            /\ parsed' = [parsed EXCEPT ![r] = <<>>]
            /\ genResp' = [genResp EXCEPT ![r] = NoGenResponse]
    /\ UNCHANGED <<apiKey, rawText, extracted, cachedArticles, lastArticles,
                   resp>>

\* continue (lines 138, 165): the failure is logged, the loop takes the
\* next model and fetches it, or ends and line 170 answers 500
Continue(r, succeeded) ==
    /\ failures' = [failures EXCEPT ![r] = Append(@, model[r])]
    /\ outcomes' = [outcomes EXCEPT ![r] = Append(@, succeeded)]
    /\ IF NextModel(model[r]) \in 1..Len(models)
       THEN /\ model' = [model EXCEPT ![r] = NextModel(model[r])]
            /\ calls' = [calls EXCEPT ![r] = @ \o Fetches(NextModel(model[r]))]
            /\ pc' = [pc EXCEPT ![r] = "fetch"]
            /\ ok' = [ok EXCEPT ![r] = FALSE]
            /\ UNCHANGED <<category, selectedCategory, parsed, genResp>>
       ELSE /\ Finish(r, GenResponse(500, <<>>), <<>>)
            /\ UNCHANGED calls
    /\ UNCHANGED <<apiKey, rawText, extracted, cachedArticles, lastArticles,
                   resp>>

\* await fetch(...) resolves: line 134 calls response.json()
FetchResolves(r, isOk) ==
    /\ pc[r] = "fetch"
    /\ pc' = [pc EXCEPT ![r] = "json"]
    /\ ok' = [ok EXCEPT ![r] = isOk]
    /\ UNCHANGED <<apiKey, rawText, extracted, cachedArticles, lastArticles,
                   resp, category, selectedCategory, model, calls, failures,
                   outcomes, parsed, genResp>>

\* await fetch(...) rejects (transport failure): the catch block
FetchRejects(r) ==
    /\ pc[r] = "fetch"
    /\ Continue(r, FALSE)

\* await response.json() rejects (the body is no JSON): the catch block
JsonRejects(r) ==
    /\ pc[r] = "json"
    /\ Continue(r, FALSE)

\* whether a call counts as a success: the status is a success and the
\* body's text holds a JSON array where the handler looks for it
CallSucceeds(isOk, data) ==
    /\ isOk
    /\ data.hasText
    /\ \E e \in {Extract(data.text)} : e.ok /\ e.value.kind = "array"

\* lines 155-161: the batch goes to the response alone, cachedArticles is
\* not assigned
CacheAfterGenerateStore(cache, articlesWithIds) == Arr(articlesWithIds)
CacheAfterGenerate(cache, articlesWithIds) == cache

\* line 156: articles.map of a value that is no array is no function, the
\* call throws a TypeError
MapThrowsNever(value) == FALSE
MapThrows(value) == value.kind # "array"

\* await response.json() resolves with data: lines 136-166
JsonResolves(r, data) ==
    /\ pc[r] = "json"
    /\ \E done \in {CallSucceeds(ok[r], data)} :
       IF ~ok[r] THEN Continue(r, done)                   \* line 136
       ELSE IF ~data.hasText THEN Continue(r, done)       \* line 143 throws
       ELSE \E articles \in {Extract(data.text)} :
            IF ~articles.ok THEN Continue(r, done)        \* line 153 throws
            ELSE IF MapThrows(articles.value)
            THEN Continue(r, done)                        \* line 156 throws
            ELSE \E times \in Times(Len(articles.value.items)) :
                 /\ Finish(r,
                      GenResponse(200,
                         ArticlesWithIds(articles.value.items, times)),
                      articles.value.items)
                 /\ outcomes' = [outcomes EXCEPT ![r] = Append(@, done)]
                 /\ cachedArticles' =
                       CacheAfterGenerate(cachedArticles,
                          ArticlesWithIds(articles.value.items, times))
                 /\ UNCHANGED <<apiKey, rawText, extracted, lastArticles,
                                resp, calls, failures>>

(***************************************************************************)
(* Inputs.                                                                 *)
(***************************************************************************)
Reqs == 1..MaxReqs

A1 == Art(TRUE, 1, "h1")
A2 == Art(TRUE, 2, "h2")
A1b == Art(TRUE, 1, "h3")

\* req.body.articles of the update-cache requests
Bodies ==
    {Undefined, Null, Arr(<<>>), Arr(<<A1>>), Arr(<<A1, A2>>),
     Arr(<<A1, A1b>>), Str(2)}

\* req.body.category of the generate requests
Categories == {"random", "sports", "Random", NoCategory}

\* the values of Math.random() that matter for a category
Randoms(cat) == IF cat = "random" THEN 0..(RandSteps - 1) ELSE {0}

\* the protocol and host of a feed request
BaseUrls == {"http://h"}

\* the bodies of the upstream responses: no candidate text; a bare array;
\* prose and a fenced block tagged json; an untagged fenced block; a bare
\* empty array; a bare object; a fenced block that holds no JSON
UpstreamData ==
    { Data(FALSE, <<>>),
      Data(TRUE, <<"[a,b]">>),
      Data(TRUE, <<"prose", NL, Fence, "json", NL, "[1,b]", NL, Fence>>),
      Data(TRUE, <<Fence, NL, "[7,7]", NL, Fence, NL>>),
      Data(TRUE, <<"[]">>),
      Data(TRUE, <<"{}">>),
      Data(TRUE, <<Fence, "json", NL, "[{", NL, Fence>>) }

\* article i of a long batch: pattern 1 numbers the ids 1, 2, 3, ...,
\* pattern 2 repeats the ids 0, 1, 2 and pattern 3 has no ids
LongArticle(i, pattern) ==
    CASE pattern = 1 -> Art(TRUE, i, ToString(i))
      [] pattern = 2 -> Art(TRUE, i % 3, ToString(i))
      [] OTHER -> Art(FALSE, 0, ToString(i))
LongBatch(n, pattern) == [i \in 1..n |-> LongArticle(i, pattern)]
LongBodies == {Arr(LongBatch(n, pattern)) : n \in 0..MaxBatchLen,
                                            pattern \in 1..3}

\* articles whose fields hold characters that are markup in XML: the end
\* of a CDATA section, a tag, an ampersand
ArtText(headline, summary, author, cat) ==
    [Art(TRUE, 1, headline) EXCEPT !.summary = summary, !.author = author,
                                   !.category = cat]
MarkupBodies ==
    { Arr(<<ArtText("]]><script>", "s", "au", "politics")>>),
      Arr(<<ArtText("h1", "a ]]> b", "au", "politics")>>),
      Arr(<<ArtText("h1", "s", "</author><x>", "politics")>>),
      Arr(<<ArtText("h1", "s", "au", "Film & TV")>>),
      Arr(<<ArtText("a < b", "Film & TV", "au", "politics")>>) }

(***************************************************************************)
(* The server: any interleaving of the handlers' turns.                    *)
(***************************************************************************)
Init ==
    /\ apiKey \in BOOLEAN
    /\ cachedArticles = Arr(<<>>)
    /\ lastArticles = Undefined
    /\ resp = NoResponse
    /\ pc = [r \in Reqs |-> "idle"]
    /\ category = [r \in Reqs |-> NoCategory]
    /\ selectedCategory = [r \in Reqs |-> NoCategory]
    /\ model = [r \in Reqs |-> 0]
    /\ ok = [r \in Reqs |-> FALSE]
    /\ calls = [r \in Reqs |-> <<>>]
    /\ failures = [r \in Reqs |-> <<>>]
    /\ outcomes = [r \in Reqs |-> <<>>]
    /\ parsed = [r \in Reqs |-> <<>>]
    /\ genResp = [r \in Reqs |-> NoGenResponse]
    /\ rawText = <<>>
    /\ extracted = <<>>

\* one turn of the generate handler of request r
GenerateStep(r) ==
    \/ \E isOk \in BOOLEAN : FetchResolves(r, isOk)
    \/ FetchRejects(r)
    \/ JsonRejects(r)
    \/ \E data \in UpstreamData : JsonResolves(r, data)

\* The category only enters the prompt text, so the requests of Spec all
\* ask for the same one; SpecCategory varies it.
Next ==
    \/ \E baseUrl \in BaseUrls : Rss(baseUrl)
    \/ GetArticles
    \/ \E articles \in Bodies : UpdateCache(articles)
    \/ \E r \in Reqs : GenerateNews(r, "sports", 0)
    \/ \E r \in Reqs : GenerateStep(r)

Spec == Init /\ [][Next]_vars

\* generate requests with every category and every value of Math.random()
NextCategory ==
    \/ \E r \in Reqs, cat \in Categories :
          \E rnd \in Randoms(cat) : GenerateNews(r, cat, rnd)
    \/ \E r \in Reqs : GenerateStep(r)

SpecCategory == Init /\ [][NextCategory]_vars

\* Every upstream call settles: a request that awaits a fetch or a body
\* is resumed in the end, with whatever outcome.
NextSettling ==
    \/ \E baseUrl \in BaseUrls : Rss(baseUrl)
    \/ GetArticles
    \/ \E r \in Reqs : GenerateNews(r, "sports", 0)
    \/ \E r \in Reqs : GenerateStep(r)

SpecSettling ==
    Init /\ [][NextSettling]_vars /\ \A r \in Reqs : WF_vars(GenerateStep(r))

\* the cache and the feed with batches longer than the feed's limit
NextFeed ==
    \/ \E baseUrl \in BaseUrls : Rss(baseUrl)
    \/ GetArticles
    \/ \E articles \in LongBodies \cup MarkupBodies : UpdateCache(articles)

SpecFeed == Init /\ [][NextFeed]_vars

\* Requests side by side: several generate requests are suspended on their
\* upstream calls while others start, settle and answer, and while the
\* cache is replaced, read and fed.  Every turn of the event loop runs one
\* handler, or one generate handler from one await to the next.
ConcurrentReqs == 1..MaxConcurrent

ConcurrentBodies == {Undefined, Arr(<<A1, A2>>), Arr(<<A1b>>)}

\* upstream bodies: no candidate text, and a fenced array
ConcurrentData ==
    { Data(FALSE, <<>>),
      Data(TRUE, <<Fence, NL, "[7,7]", NL, Fence, NL>>) }

InitConcurrent ==
    /\ apiKey = TRUE
    /\ cachedArticles = Arr(<<>>)
    /\ lastArticles = Undefined
    /\ resp = NoResponse
    /\ pc = [r \in ConcurrentReqs |-> "idle"]
    /\ category = [r \in ConcurrentReqs |-> NoCategory]
    /\ selectedCategory = [r \in ConcurrentReqs |-> NoCategory]
    /\ model = [r \in ConcurrentReqs |-> 0]
    /\ ok = [r \in ConcurrentReqs |-> FALSE]
    /\ calls = [r \in ConcurrentReqs |-> <<>>]
    /\ failures = [r \in ConcurrentReqs |-> <<>>]
    /\ outcomes = [r \in ConcurrentReqs |-> <<>>]
    /\ parsed = [r \in ConcurrentReqs |-> <<>>]
    /\ genResp = [r \in ConcurrentReqs |-> NoGenResponse]
    /\ rawText = <<>>
    /\ extracted = <<>>

NextConcurrent ==
    \/ \E baseUrl \in BaseUrls : Rss(baseUrl)
    \/ GetArticles
    \/ \E articles \in ConcurrentBodies : UpdateCache(articles)
    \/ \E r \in ConcurrentReqs : GenerateNews(r, "sports", 0)
    \/ \E r \in ConcurrentReqs : FetchResolves(r, TRUE)
    \/ \E r \in ConcurrentReqs, data \in ConcurrentData : JsonResolves(r, data)

SpecConcurrent == InitConcurrent /\ [][NextConcurrent]_vars

\* The extractor on its own: lines 146-153 applied once to a raw text.
TextTokens == {Fence, "json", NL, " ", "[a,b]"}
Texts == UNION {[1..n -> TextTokens] : n \in 0..MaxTextLen}

InitExtract ==
    /\ apiKey = TRUE
    /\ cachedArticles = Arr(<<>>)
    /\ lastArticles = Undefined
    /\ resp = NoResponse
    /\ pc = [r \in Reqs |-> "idle"]
    /\ category = [r \in Reqs |-> NoCategory]
    /\ selectedCategory = [r \in Reqs |-> NoCategory]
    /\ model = [r \in Reqs |-> 0]
    /\ ok = [r \in Reqs |-> FALSE]
    /\ calls = [r \in Reqs |-> <<>>]
    /\ failures = [r \in Reqs |-> <<>>]
    /\ outcomes = [r \in Reqs |-> <<>>]
    /\ parsed = [r \in Reqs |-> <<>>]
    /\ genResp = [r \in Reqs |-> NoGenResponse]
    /\ rawText \in Texts
    /\ extracted = <<>>

ExtractText ==
    /\ extracted = <<>>
    /\ extracted' = <<Extract(rawText)>>
    /\ UNCHANGED <<apiKey, rawText, cachedArticles, lastArticles, resp>>
    /\ UNCHANGED genVars

NextExtract == ExtractText

SpecExtract == InitExtract /\ [][NextExtract]_vars

\* Every upstream call reports success (response.ok) and its body is JSON:
\* what is left to go wrong is the extraction of the batch from the body.
NextUpstreamOk ==
    \/ \E baseUrl \in BaseUrls : Rss(baseUrl)
    \/ GetArticles
    \/ \E articles \in Bodies : UpdateCache(articles)
    \/ \E r \in Reqs : GenerateNews(r, "sports", 0)
    \/ \E r \in Reqs : FetchResolves(r, TRUE)
    \/ \E r \in Reqs, data \in UpstreamData : JsonResolves(r, data)

SpecUpstreamOk == Init /\ [][NextUpstreamOk]_vars

(***************************************************************************)
(* Properties.                                                             *)
(***************************************************************************)
\* 1, 2, ..., n
UpTo(n) == [i \in 1..n |-> i]

\* a record without its id
Strip(a) == [a EXCEPT !.hasId = FALSE, !.id = 0]

\* C1: the models are tried in list order; when model k is the first whose
\* call succeeds and whose text extracts, the request answers 200 with the
\* batch of that model, models 1..k-1 were each called once before it and
\* logged as failed, and no model after k is called.
C1_FirstSuccessAnswers ==
    \A r \in Reqs :
       LET k == Len(calls[r])
       IN /\ calls[r] = UpTo(k)
          /\ k <= Len(models)
          /\ (\E j \in 1..Len(outcomes[r]) : outcomes[r][j])
                => genResp[r].status = 200
          /\ genResp[r].status = 200 =>
                /\ pc[r] = "done"
                /\ Len(outcomes[r]) = k
                /\ outcomes[r][k]
                /\ \A j \in 1..(k - 1) : ~outcomes[r][j]
                /\ failures[r] = UpTo(k - 1)
                /\ Len(genResp[r].body) = Len(parsed[r])
                /\ \A i \in 1..Len(parsed[r]) :
                      genResp[r].body[i].headline = parsed[r][i].headline

C1_Witness ==
    \E r \in Reqs :
       /\ genResp[r].status = 200
       /\ calls[r] = <<1, 2, 3>>
       /\ failures[r] = <<1, 2>>
       /\ Len(genResp[r].body) = 2

\* C2: when every model fails, the request answers 500 and every model of
\* the list was called exactly once, in list order; no model is ever called
\* a second time.
C2_AllFailAnswers500 ==
    \A r \in Reqs :
       /\ \A i, j \in 1..Len(calls[r]) : i # j => calls[r][i] # calls[r][j]
       /\ genResp[r].status = 500 =>
             /\ pc[r] = "done"
             /\ calls[r] = UpTo(Len(models))
             /\ failures[r] = UpTo(Len(models))
             /\ Len(outcomes[r]) = Len(models)
             /\ \A j \in 1..Len(models) : ~outcomes[r][j]
       /\ (Len(outcomes[r]) = Len(models)
            /\ \A j \in 1..Len(models) : ~outcomes[r][j])
             => genResp[r].status = 500

C2_Witness ==
    \E r \in Reqs :
       /\ genResp[r].status = 500
       /\ Len(calls[r]) = Len(models)

\* C3: a 200 response holds every record parsed from the text of one model,
\* as many and in the same order, each changed at most in its id; every
\* other response carries no records.
C3_WholeBatchOrNone ==
    \A r \in Reqs :
       /\ genResp[r].status = 200 =>
             /\ Len(genResp[r].body) = Len(parsed[r])
             /\ \A i \in 1..Len(parsed[r]) :
                   /\ Strip(genResp[r].body[i]) = Strip(parsed[r][i])
                   /\ genResp[r].body[i].hasId
                   /\ parsed[r][i].hasId
                         => genResp[r].body[i].id = parsed[r][i].id
       /\ genResp[r].status # 200 => genResp[r].body = <<>>

C3_Witness ==
    \E r \in Reqs :
       /\ genResp[r].status = 200
       /\ Len(genResp[r].body) = 2
       /\ parsed[r][1].hasId
       /\ ~parsed[r][2].hasId

\* C4 (as claimed): in every batch a generate request returns, the ids of
\* the records are pairwise distinct.
C4_BatchIdsDistinct ==
    \A r \in Reqs :
       genResp[r].status = 200 => Distinct(Ids(genResp[r].body))

\* the cache after a replace with a batch, or with no batch
Replaced(articles) ==
    IF articles.kind = "array" THEN articles ELSE Arr(<<>>)

\* the request's articles are a batch (an array) or absent (none, or null)
IsBatch(articles) == articles.kind \in {"array", "undefined", "null"}

\* C5: a cache read returns exactly the batch of the latest replace, the
\* same articles in the same order, and the empty sequence when there was
\* none; feed and generate requests in between change nothing of it.
C5_ReadReturnsLastReplace ==
    (resp.op = "articles" /\ IsBatch(lastArticles)) =>
        /\ resp.status = 200
        /\ resp.json = Replaced(lastArticles)

C5_Witness ==
    /\ resp.op = "articles"
    /\ lastArticles = Arr(<<A1, A2>>)
    /\ resp.json.items = <<A1, A2>>
    /\ \E r \in Reqs : genResp[r].status = 200

\* C6: a replace answers {success: true, count} with count the number of
\* articles now in the cache; an empty or absent batch empties the cache
\* and answers count 0.
C6_ReplaceAnswersCount ==
    (resp.op = "update-cache" /\ IsBatch(lastArticles)) =>
        /\ resp.status = 200
        /\ resp.success
        /\ cachedArticles.kind = "array"
        /\ resp.count = Num(Len(cachedArticles.items))
        /\ Len(cachedArticles.items) = Len(lastArticles.items)
        /\ Len(lastArticles.items) = 0 =>
              (cachedArticles = Arr(<<>>) /\ resp.count = Num(0))

C6_Witness ==
    /\ resp.op = "update-cache"
    /\ lastArticles = Undefined
    /\ cachedArticles = Arr(<<>>)
    /\ resp.count = Num(0)

\* the places of the <item> openings the template emitted, and the i-th
ItemStarts(doc) == {p \in 1..Len(doc) : doc[p] = T("<item>")}
ItemStart(doc, i) ==
    CHOOSE p \in ItemStarts(doc) :
       Cardinality({q \in ItemStarts(doc) : q < p}) = i - 1

\* C7: the feed of a cached batch of n articles has min(n, 20) items, and
\* its i-th item is built from the i-th cached article.
C7_FeedFirstTwenty ==
    (resp.op = "rss" /\ cachedArticles.kind = "array") =>
        LET n == Len(cachedArticles.items)
            doc == resp.doc
        IN /\ resp.status = 200
           /\ Cardinality(ItemStarts(doc)) = Min(n, FeedLimit)
           /\ Cardinality({p \in 1..Len(doc) : doc[p] = T("</item>")})
                 = Min(n, FeedLimit)
           /\ \A i \in 1..Min(n, FeedLimit) :
                 LET p == ItemStart(doc, i)
                 IN /\ doc[p + 2] = X(cachedArticles.items[i].headline)
                    /\ doc[p + 19] = X(IdText(cachedArticles.items[i]))
                    /\ doc[p + 21] = T("</item>")

C7_Witness ==
    /\ resp.op = "rss"
    /\ cachedArticles.kind = "array"
    /\ Len(cachedArticles.items) > FeedLimit
    /\ Cardinality(ItemStarts(resp.doc)) = FeedLimit

\* C8: without the credential every generate request answers 503 and no
\* upstream call is issued; replace, read and feed answer as usual.
C8_NoKeyAnswers503 ==
    ~apiKey =>
        /\ \A r \in Reqs :
              /\ calls[r] = <<>>
              /\ pc[r] \in {"idle", "done"}
              /\ pc[r] = "done" => genResp[r] = GenResponse(503, <<>>)
        /\ resp.op = "articles" =>
              (resp.status = 200 /\ resp.json = cachedArticles)
        /\ (resp.op = "update-cache" /\ IsBatch(lastArticles)) =>
              /\ resp.status = 200
              /\ resp.success
              /\ cachedArticles = Replaced(lastArticles)
        /\ (resp.op = "rss" /\ cachedArticles.kind = "array") =>
              /\ resp.status = 200
              /\ Cardinality(ItemStarts(resp.doc))
                    = Len(cachedArticles.items)

C8_Witness ==
    /\ ~apiKey
    /\ \E r \in Reqs : genResp[r].status = 503
    /\ resp.op = "articles"
    /\ resp.json = Arr(<<A1, A2>>)

\* C9 (as claimed): the articles in the cache have pairwise distinct ids,
\* whatever batches the callers submit.
C9_CacheIdsDistinct ==
    cachedArticles.kind = "array" => Distinct(Ids(cachedArticles.items))

Range(s) == {s[i] : i \in 1..Len(s)}

\* C10: for the sentinel "random" the category of the prompt is one of
\* the five fixed categories; every other category is used unchanged.
C10_CategoryResolution ==
    \A r \in Reqs :
       pc[r] \in {"fetch", "json"} =>
          /\ category[r] = "random" =>
                selectedCategory[r] \in Range(categories)
          /\ category[r] # "random" => selectedCategory[r] = category[r]

C10_Witness ==
    \E r \in Reqs :
       /\ pc[r] = "json"
       /\ category[r] = "random"
       /\ selectedCategory[r] = "cricket"

\* the headlines of the items of a feed document, in document order
FeedHeadlines(doc) ==
    [i \in 1..Cardinality(ItemStarts(doc)) |-> doc[ItemStart(doc, i) + 2].v]

Headlines(articles) == [i \in 1..Len(articles) |-> articles[i].headline]

\* C11: with generate requests suspended on their upstream calls and
\* requests of every kind interleaved, every cache read returns, whole and
\* in order, the batch of one single replace (the latest; the empty batch
\* before the first), and every feed is built from that one batch: no
\* reader sees part of a batch or articles of two batches.
C11_ReadersSeeOneWholeBatch ==
    /\ resp.op = "articles" =>
          /\ resp.status = 200
          /\ resp.json \in {Replaced(b) : b \in ConcurrentBodies}
          /\ resp.json = Replaced(lastArticles)
    /\ resp.op = "rss" =>
          /\ resp.status = 200
          /\ FeedHeadlines(resp.doc)
                \in {Headlines(Replaced(b).items) : b \in ConcurrentBodies}
          /\ FeedHeadlines(resp.doc) = Headlines(Replaced(lastArticles).items)

C11_Witness ==
    /\ resp.op = "rss"
    /\ FeedHeadlines(resp.doc) = <<"h3">>
    /\ pc[1] = "fetch"
    /\ pc[2] = "json"
    /\ model[1] = 2

\* C12: within a generate request at most one upstream call is open at any
\* moment (exactly one while the request awaits, none otherwise), and the
\* call to a model is issued only when the call to the model before it has
\* settled, was rejected and was logged as failed.
C12_OneCallAtATime ==
    \A r \in Reqs :
       LET issued == Len(calls[r])
           settled == Len(outcomes[r])
       IN /\ issued - settled = (IF pc[r] \in {"fetch", "json"} THEN 1 ELSE 0)
          /\ \A j \in 2..issued :
                /\ j - 1 <= settled
                /\ ~outcomes[r][j - 1]
                /\ j - 1 <= Len(failures[r])
                /\ failures[r][j - 1] = calls[r][j - 1]
                /\ calls[r][j] = calls[r][j - 1] + 1

C12_Witness ==
    \E r \in Reqs :
       /\ pc[r] = "json"
       /\ calls[r] = <<1, 2, 3>>
       /\ Len(outcomes[r]) = 2

\* a text as an XML parser reads it: runs of plain characters ("chars")
\* and the character sequences that are markup
Lex(text) ==
    CASE text = "]]><script>" -> <<"]]>", "<script>">>
      [] text = "a ]]> b" -> <<"chars", "]]>", "chars">>
      [] text = "</author><x>" -> <<"</author>", "<x>">>
      [] text = "Film & TV" -> <<"chars", "&", "chars">>
      [] text = "a < b" -> <<"chars", "<", "chars">>
      [] OTHER -> <<"chars">>

\* the token at place p of a document stands in a CDATA section
InCData(doc, p) ==
    /\ p > 1
    /\ doc[p - 1] \in {T("<title><![CDATA["), T("<description><![CDATA[")}

\* the interpolated text at place p stays text where it stands: in a CDATA
\* section it does not hold the section's end, elsewhere it holds no
\* markup at all
StaysText(doc, p) ==
    IF InCData(doc, p) THEN \A i \in 1..Len(Lex(doc[p].v)) :
                               Lex(doc[p].v)[i] # "]]>"
    ELSE \A i \in 1..Len(Lex(doc[p].v)) : Lex(doc[p].v)[i] = "chars"

\* C13 (as claimed): whatever characters the fields of the cached articles
\* hold, every interpolated text of the feed stays text inside its element
\* or CDATA section, and the document has exactly one self link, to the
\* base URL followed by /rss.
C13_FeedWellFormed ==
    (resp.op = "rss" /\ resp.status = 200) =>
        LET doc == resp.doc
            links == {p \in 1..Len(doc) : doc[p] = T("<atom:link href=\"")}
        IN /\ \A p \in 1..Len(doc) : doc[p].t = "txt" => StaysText(doc, p)
           /\ Cardinality(links) = 1
           /\ \A p \in links : /\ doc[p + 1].t = "txt"
                               /\ doc[p + 1] = doc[6]
                               /\ doc[p + 2] = T("/rss")

\* C14: in SpecUpstreamOk every call reports success, so a call settled as
\* a failure is one whose batch could not be extracted (no candidate text,
\* text that is no JSON, JSON that is no array).  Such a call is logged as
\* a failure of its model, no response is sent for it, the loop goes on to
\* the next model (or, after the last, answers 500), and a 200 response is
\* only ever sent for a call whose text gave an array.
C14_ExtractionFailureIsModelFailure ==
    \A r \in Reqs :
       /\ pc[r] \in {"fetch", "json"} => genResp[r] = NoGenResponse
       /\ \A j \in 1..Len(outcomes[r]) :
             ~outcomes[r][j] =>
                /\ j <= Len(failures[r])
                /\ failures[r][j] = calls[r][j]
                /\ genResp[r].status = 200 => j < Len(outcomes[r])
                /\ IF calls[r][j] < Len(models)
                   THEN /\ Len(calls[r]) > j
                        /\ calls[r][j + 1] = calls[r][j] + 1
                   ELSE genResp[r].status = 500
       /\ genResp[r].status = 200 =>
             /\ outcomes[r] # <<>>
             /\ outcomes[r][Len(outcomes[r])]
             /\ Len(failures[r]) = Len(outcomes[r]) - 1

C14_Witness ==
    \E r \in Reqs :
       /\ pc[r] = "fetch"
       /\ model[r] = 3
       /\ failures[r] = <<1, 2>>
       /\ outcomes[r] = <<FALSE, FALSE>>
       /\ genResp[r] = NoGenResponse

\* the places i < k < j of a fenced block of the text that wraps the JSON
\* array at k: a fence at i, possibly the tag json, white space, the array,
\* white space, a fence at j
FencedArrays(text) ==
    {b \in (1..Len(text)) \X (1..Len(text)) \X (1..Len(text)) :
        /\ b[1] < b[2]
        /\ b[2] < b[3]
        /\ text[b[1]] = Fence
        /\ text[b[3]] = Fence
        /\ text[b[2]] = "[a,b]"
        /\ \A p \in (b[1] + 1)..(b[2] - 1) :
              IsSpace(text[p]) \/ (p = b[1] + 1 /\ text[p] = "json")
        /\ \A p \in (b[2] + 1)..(b[3] - 1) : IsSpace(text[p])}

HasFence(text) == \E p \in 1..Len(text) : text[p] = Fence

\* C15 (as claimed): a raw text that holds a fenced block wrapping a valid
\* JSON array extracts to exactly that array, whatever surrounds the block
\* and however the fence is laid out; a text with fences that wrap no
\* array fails to extract; a text without a fence is parsed as a whole.
C15_ExtractsFencedArray ==
    extracted # <<>> =>
        /\ \A b \in FencedArrays(rawText) :
              extracted[1] = Parsed(TRUE, FragmentValue(rawText[b[2]]))
        /\ (HasFence(rawText) /\ FencedArrays(rawText) = {})
              => ~extracted[1].ok
        /\ ~HasFence(rawText) => extracted[1] = JSONParse(rawText)

\* C16: a step that changes the cache is a step of a replace request: it
\* leaves every generate request as it was and the new cache is the batch
\* submitted (or empty).  So no step of a generate request, successful or
\* failed, no cache read and no feed request changes the cache.
C16_OnlyReplaceChangesCache ==
    [][cachedArticles' # cachedArticles =>
          /\ resp'.op = "update-cache"
          /\ UNCHANGED genVars
          /\ cachedArticles' \in {lastArticles', Arr(<<>>)}]_vars

C16_Witness ==
    /\ \E r \in Reqs : /\ genResp[r].status = 200
                       /\ Len(genResp[r].body) = 2
    /\ cachedArticles = Arr(<<>>)
    /\ resp.op = "rss"
    /\ ItemStarts(resp.doc) = {}

\* all that the handler of generate request r holds
ReqState(r) ==
    <<pc[r], category[r], selectedCategory[r], model[r], ok[r], calls[r],
      failures[r], outcomes[r], parsed[r], genResp[r]>>

\* C17: every step changes at most one generate request and leaves the
\* others, suspended or finished, exactly as they were; a request starts at
\* the first model whatever the others have tried, the models it has
\* called are always 1, 2, ..., k without gap or repeat, and the batch it
\* answers is the one parsed from its own upstream response.
C17_RequestsIndependent ==
    [][\A r \in ConcurrentReqs :
          ReqState(r)' # ReqState(r) =>
             /\ \A q \in ConcurrentReqs \ {r} : ReqState(q)' = ReqState(q)
             /\ calls'[r] = UpTo(Len(calls'[r]))
             /\ pc[r] \in {"idle", "done"} =>
                   /\ calls'[r] = <<1>>
                   /\ failures'[r] = <<>>
             /\ genResp'[r].status = 200 =>
                   /\ Len(genResp'[r].body) = Len(parsed'[r])
                   /\ \A i \in 1..Len(parsed'[r]) :
                         Strip(genResp'[r].body[i]) = Strip(parsed'[r][i])]_vars

C17_Witness ==
    /\ pc[1] = "fetch"
    /\ calls[1] = <<1>>
    /\ genResp[1] = NoGenResponse
    /\ pc[2] = "json"
    /\ calls[2] = <<1, 2, 3>>
    /\ failures[2] = <<1, 2>>

\* C18: a generate request that has ended was answered 503, 200 or 500; no
\* response is sent while its handler still runs and the response of an
\* ended request is never replaced, so it is answered once; it never
\* issues more upstream calls than there are models; and, every upstream
\* call settling, a request that awaits a call is answered in the end.
C18_AnsweredExactlyOnce ==
    /\ [](\A r \in Reqs :
            /\ pc[r] = "done" => genResp[r].status \in {503, 200, 500}
            /\ pc[r] \in {"fetch", "json"} => genResp[r] = NoGenResponse
            /\ Len(calls[r]) <= Len(models))
    /\ [][\A r \in Reqs : (pc[r] = "done" /\ pc'[r] = "done")
                              => genResp'[r] = genResp[r]]_vars
    /\ \A r \in Reqs : (pc[r] \in {"fetch", "json"}) ~> (pc[r] = "done")

C18_Witness ==
    \E r \in Reqs :
       /\ pc[r] = "done"
       /\ genResp[r].status = 200
       /\ Len(calls[r]) = Len(models)
       /\ Len(failures[r]) = Len(models) - 1

\* C19 (as claimed): whatever bodies the requests carried, the cache holds
\* an array, and every cache read and feed request is answered normally.
C19_CacheIsArray ==
    /\ cachedArticles.kind = "array"
    /\ resp.op \in {"rss", "articles"} => resp.status = 200

====
